---- MODULE Spec2Model ----
(***************************************************************************)
(* State-machine model of lb.py: a sequential TCP forwarder.  One thread   *)
(* of control accepts a client, reads a 2-byte prefix with read_n, picks   *)
(* the next backend round-robin, forwards the prefix, relays one recv of   *)
(* the backend's answer and closes.  Every blocking call of the loop body  *)
(* is one action; pc is the position of the single thread.                 *)
(*                                                                         *)
(* Byte strings coming from clients are sequences of bytes.  A backend's   *)
(* answer is a stream of respLen bytes; a byte string taken from it is the *)
(* range [from, len] of stream positions it covers, so the 4096 of the     *)
(* code keeps its value.                                                   *)
(***************************************************************************)
EXTENDS Integers, Sequences, FiniteSets, TLC

\* ---------------------------------------------------------------- bounds
MaxClients == 4      \* client connections accepted in a run
MaxReqLen == 3       \* longest byte stream a client sends
MaxRespLen == 10000  \* longest answer a backend sends
LiveClients == 2     \* client connections accepted in a run of SpecLive
Byte == {1, 2}       \* byte values clients use

\* ------------------------------------------------------ program constants
servers == <<"192.168.0.101", "192.168.0.102", "192.168.0.103">>
PrefixLen == 2       \* read_n(client, 2)
RecvMax == 4096      \* serv.recv(4096)

NoRange == [from |-> 0, len |-> 0]

VARIABLES
  pc,          \* position of the thread in main's loop
  rr_index,    \* main's round-robin cursor
  accepted,    \* number of accept() calls that returned; the current client's id
  clientOpen,  \* ids of accepted client sockets not yet closed
  cstream,     \* the bytes the current client sends before closing its side
  cpos,        \* how many of them recv has taken off the client socket
  data,        \* read_n's accumulator
  req,         \* main's req (<<>> until read_n returns)
  host,        \* main's host ("" until a backend is selected)
  serv,        \* id of the socket object bound to main's serv, 0 if unbound
  servOpen,    \* ids of backend sockets created and not yet closed
  connects,    \* connect() calls made for the current client
  selects,     \* backend selections (line 38) made for the current client
  crecvs,      \* conn.recv calls of the read_n call whose result main holds at
               \* line 33 (read_n's own bookkeeping, dropped at line 38)
  respLen,     \* bytes the connected backend will send on this connection
  boff,        \* bytes of the backend's answer already taken by recv
  brecvs,      \* serv.recv calls made for the current client
  resp,        \* main's resp, a range of the backend's answer
  backendIn,   \* bytes the backend has received on this connection
  reqCalls,    \* transport writes made by serv.sendall(req)
  clientOut,   \* number of bytes the current client has received
  respCalls,   \* transport writes made by client.sendall(resp)
  exc,         \* exception in flight ("none" if none)
  raisedAt,    \* the call that raised for the current client ("none" if none)
  logged,      \* error lines printed for the current client
  startIdx,    \* rr_index when the current client was accepted
  assigned,    \* history: the host chosen for each admitted client, in order
  prevRaised,  \* raisedAt of the previous client
  passed       \* history: clients whose read_n returned exactly 2 bytes

vars == <<pc, rr_index, accepted, clientOpen, cstream, cpos, data, req, host,
          serv, servOpen, connects, selects, crecvs, respLen, boff, brecvs, resp,
          backendIn, reqCalls, clientOut, respCalls, exc, raisedAt, logged,
          startIdx, assigned, prevRaised, passed>>

connVars == <<cstream, cpos, data, req, host, connects, selects, crecvs,
              respLen, boff, brecvs, resp, backendIn, reqCalls, clientOut,
              respCalls, raisedAt, logged, startIdx>>

\* --------------------------------------------------------------- helpers
Min(a, b) == IF a < b THEN a ELSE b

SeqsUpTo(S, n) == UNION {[1..k -> S] : k \in 0..n}

ClientStreams == SeqsUpTo(Byte, MaxReqLen)

Take(s, k) == SubSeq(s, 1, k)

\* Exceptions the socket calls and the list index raise; all are subclasses
\* of Exception.
ExceptionClasses == {"ConnectionResetError", "ConnectionRefusedError",
                     "BrokenPipeError", "OSError", "IndexError"}

\* variant: except ConnectionError as e (OSError and IndexError escape)
CatchesConnectionOnly(kind) ==
  kind \in {"ConnectionResetError", "ConnectionRefusedError", "BrokenPipeError"}

\* except Exception as e
Catches(kind) == kind \in ExceptionClasses

\* control transfer when a statement of the try block raises `kind`
RaiseTo(kind) == IF Catches(kind) THEN "except" ELSE "finally"

\* variant: if not req (only the empty prefix is rejected)
TooShortEmptyOnly(r) == Len(r) = 0

\* line 33: if len(req) != 2
TooShort(r) == Len(r) # PrefixLen

\* variant: rr_index = rr_index + 1
NextIndexNoMod(i) == i + 1

\* variant: the cursor stops at the last backend instead of wrapping
NextIndexNoWrap(i) == IF i + 1 < Len(servers) THEN i + 1 ELSE i

\* rr_index = (rr_index + 1) % len(servers)
NextIndex(i) == (i + 1) % Len(servers)

\* variant: conn.recv(n)
RecvArgWhole(n, d) == n

\* conn.recv(n - len(data)): the size asked of the client socket
RecvArg(n, d) == n - Len(d)

\* servers[i] is defined for -len <= i < len and raises IndexError otherwise
IndexOK(i) == i >= -Len(servers) /\ i < Len(servers)

ServerAt(i) == IF i >= 0 THEN servers[i + 1] ELSE servers[Len(servers) + i + 1]

\* sizes a single recv of up to `want` available bytes may return
Chunks(want) == {k \in {1, want - 1, want} : k >= 1 /\ k <= want}

\* sizes the transport may accept of a write of `want` bytes
Accepts(want) == {k \in {want - 1, want} : k >= 1 /\ k <= want}

\* total answer lengths a backend may produce on one connection
RespLens == {0, 1, RecvMax, MaxRespLen}

Init ==
  /\ pc = "accept"
  /\ rr_index = 0
  /\ accepted = 0
  /\ clientOpen = {}
  /\ cstream = <<>>
  /\ cpos = 0
  /\ data = <<>>
  /\ req = <<>>
  /\ host = ""
  /\ serv = 0
  /\ servOpen = {}
  /\ connects = 0
  /\ selects = 0
  /\ crecvs = 0
  /\ respLen = 0
  /\ boff = 0
  /\ brecvs = 0
  /\ resp = NoRange
  /\ backendIn = <<>>
  /\ reqCalls = 0
  /\ clientOut = 0
  /\ respCalls = 0
  /\ exc = "none"
  /\ raisedAt = "none"
  /\ logged = 0
  /\ startIdx = 0
  /\ assigned = <<>>
  /\ prevRaised = "none"
  /\ passed = 0

\* line 30: client, addr = listen.accept(); the try block is entered and
\* read_n starts with data = b""
Accept ==
  /\ pc = "accept"
  /\ accepted < MaxClients
  /\ \E s \in ClientStreams : cstream' = s
  /\ accepted' = accepted + 1
  /\ clientOpen' = clientOpen \cup {accepted + 1}
  /\ cpos' = 0
  /\ data' = <<>>
  /\ req' = <<>>
  /\ host' = ""
  /\ connects' = 0
  /\ selects' = 0
  /\ crecvs' = 0
  /\ respLen' = 0
  /\ boff' = 0
  /\ brecvs' = 0
  /\ resp' = NoRange
  /\ backendIn' = <<>>
  /\ reqCalls' = 0
  /\ clientOut' = 0
  /\ respCalls' = 0
  /\ raisedAt' = "none"
  /\ logged' = 0
  /\ startIdx' = rr_index
  /\ prevRaised' = raisedAt
  /\ pc' = "read_n"
  /\ UNCHANGED <<rr_index, serv, servOpen, exc, assigned, passed>>

\* variant: data = chunk instead of data += chunk
ReadChunkNoAccumulate ==
  /\ pc = "read_n"
  /\ Len(data) < PrefixLen
  /\ crecvs' = crecvs + 1
  /\ \E k \in 1..Min(RecvArg(PrefixLen, data), Len(cstream) - cpos) :
       /\ data' = SubSeq(cstream, cpos + 1, cpos + k)
       /\ cpos' = cpos + k
  /\ IF Len(data') < PrefixLen
       THEN pc' = "read_n" /\ req' = req /\ passed' = passed
       ELSE /\ pc' = "check"
            /\ req' = data'
            /\ passed' = IF Len(data') = PrefixLen THEN passed + 1 ELSE passed
  /\ UNCHANGED <<rr_index, accepted, clientOpen, cstream, host, serv,
                 servOpen, connects, respLen, boff, brecvs, resp, backendIn,
                 reqCalls, clientOut, respCalls, exc, raisedAt, logged,
                 startIdx, assigned, prevRaised, selects>>

\* lines 13-18: one pass of read_n's loop with a non-empty chunk; when the
\* accumulator reaches n the function returns and main binds req
ReadChunk ==
  /\ pc = "read_n"
  /\ Len(data) < PrefixLen
  /\ crecvs' = crecvs + 1
  /\ \E k \in 1..Min(RecvArg(PrefixLen, data), Len(cstream) - cpos) :
       /\ data' = data \o SubSeq(cstream, cpos + 1, cpos + k)
       /\ cpos' = cpos + k
  /\ IF Len(data') < PrefixLen
       THEN pc' = "read_n" /\ req' = req /\ passed' = passed
       ELSE /\ pc' = "check"
            /\ req' = data'
            /\ passed' = IF Len(data') = PrefixLen THEN passed + 1 ELSE passed
  /\ UNCHANGED <<rr_index, accepted, clientOpen, cstream, host, serv,
                 servOpen, connects, respLen, boff, brecvs, resp, backendIn,
                 reqCalls, clientOut, respCalls, exc, raisedAt, logged,
                 startIdx, assigned, prevRaised, selects>>

\* lines 14-16: recv returns b"" because the peer closed; read_n returns the
\* partial accumulator
ReadEOF ==
  /\ pc = "read_n"
  /\ Len(data) < PrefixLen
  /\ cpos = Len(cstream)
  /\ crecvs' = crecvs + 1
  /\ req' = data
  /\ pc' = "check"
  /\ UNCHANGED <<rr_index, accepted, clientOpen, cstream, cpos, data, host,
                 serv, servOpen, connects, respLen, boff, brecvs, resp,
                 backendIn, reqCalls, clientOut, respCalls, exc, raisedAt,
                 logged, startIdx, assigned, prevRaised, passed, selects>>

\* variant: read_n swallows the error and returns what it has
ReadErrorSilent ==
  /\ pc = "read_n"
  /\ Len(data) < PrefixLen
  /\ exc' = exc
  /\ req' = data
  /\ raisedAt' = "read"
  /\ crecvs' = crecvs + 1
  /\ pc' = "check"
  /\ UNCHANGED <<rr_index, accepted, clientOpen, cstream, cpos, data, host,
                 serv, servOpen, connects, respLen, boff, brecvs, resp,
                 backendIn, reqCalls, clientOut, respCalls, logged, startIdx,
                 assigned, prevRaised, passed, selects>>

\* line 14: conn.recv raises (connection reset)
ReadError ==
  /\ pc = "read_n"
  /\ Len(data) < PrefixLen
  /\ exc' = "ConnectionResetError"
  /\ raisedAt' = "read"
  /\ crecvs' = crecvs + 1
  /\ pc' = RaiseTo("ConnectionResetError")
  /\ UNCHANGED <<rr_index, accepted, clientOpen, cstream, cpos, data, req,
                 host, serv, servOpen, connects, respLen, boff, brecvs, resp,
                 backendIn, reqCalls, clientOut, respCalls, logged, startIdx,
                 assigned, prevRaised, passed, selects>>

\* variant: the short path continues without closing and without a finally
ShortCloseLeaks ==
  /\ pc = "check"
  /\ TooShort(req)
  /\ pc' = "accept"
  /\ UNCHANGED <<rr_index, accepted, clientOpen, serv, servOpen, exc, assigned,
                 prevRaised, passed>>
  /\ UNCHANGED connVars

\* lines 33-35: the prefix is short: client.close(); continue (the finally
\* clause still runs)
ShortClose ==
  /\ pc = "check"
  /\ TooShort(req)
  /\ clientOpen' = clientOpen \ {accepted}
  /\ pc' = "finally"
  /\ UNCHANGED <<rr_index, accepted, serv, servOpen, exc, assigned, prevRaised,
                 passed>>
  /\ UNCHANGED connVars

\* lines 38-39: host, port = servers[rr_index]; rr_index = (rr_index+1) % len
Select ==
  /\ pc = "check"
  /\ ~TooShort(req)
  /\ selects' = selects + 1
  /\ crecvs' = 0
  /\ IF IndexOK(rr_index)
       THEN /\ host' = ServerAt(rr_index)
            /\ rr_index' = NextIndex(rr_index)
            /\ assigned' = Append(assigned, ServerAt(rr_index))
            /\ pc' = "socket"
            /\ UNCHANGED <<exc, raisedAt>>
       ELSE /\ exc' = "IndexError"
            /\ raisedAt' = "select"
            /\ pc' = RaiseTo("IndexError")
            /\ UNCHANGED <<host, rr_index, assigned>>
  /\ UNCHANGED <<accepted, clientOpen, cstream, cpos, data, req, serv,
                 servOpen, connects, respLen, boff, brecvs, resp, backendIn,
                 reqCalls, clientOut, respCalls, logged, startIdx, prevRaised,
                 passed>>

\* line 42: serv = socket.socket(...).  Rebinding serv drops the last
\* reference to the socket object of an earlier iteration; if that one was
\* never closed, the runtime closes it when it reclaims the object, at once
\* or later.
CreateSocket ==
  /\ pc = "socket"
  /\ serv' = accepted
  /\ \E reclaimed \in BOOLEAN :
       servOpen' = (IF reclaimed THEN servOpen \ {serv} ELSE servOpen)
                     \cup {accepted}
  /\ pc' = "connect"
  /\ UNCHANGED <<rr_index, accepted, clientOpen, exc, assigned, prevRaised,
                 passed>>
  /\ UNCHANGED connVars

\* line 42: socket.socket raises (no descriptor left); serv keeps its old value
SocketError ==
  /\ pc = "socket"
  /\ exc' = "OSError"
  /\ raisedAt' = "socket"
  /\ pc' = RaiseTo("OSError")
  /\ UNCHANGED <<rr_index, accepted, clientOpen, cstream, cpos, data, req,
                 host, serv, servOpen, connects, respLen, boff, brecvs, resp,
                 backendIn, reqCalls, clientOut, respCalls, logged, startIdx,
                 assigned, prevRaised, passed, selects, crecvs>>

\* line 43: serv.connect((host, port)) succeeds; the backend that answered
\* has some answer of respLen bytes to give
Connect ==
  /\ pc = "connect"
  /\ connects' = connects + 1
  /\ \E n \in RespLens : respLen' = n
  /\ pc' = "sendreq"
  /\ UNCHANGED <<rr_index, accepted, clientOpen, cstream, cpos, data, req,
                 host, serv, servOpen, boff, brecvs, resp, backendIn,
                 reqCalls, clientOut, respCalls, exc, raisedAt, logged,
                 startIdx, assigned, prevRaised, passed, selects, crecvs>>

\* variant: a refused connect moves on to the next backend
ConnectErrorFailsOver ==
  /\ pc = "connect"
  /\ connects' = connects + 1
  /\ pc' = "check"
  /\ UNCHANGED <<exc, raisedAt, rr_index, accepted, clientOpen, cstream, cpos, data, req,
                 host, serv, servOpen, respLen, boff, brecvs, resp, backendIn,
                 reqCalls, clientOut, respCalls, logged, startIdx, assigned,
                 prevRaised, passed, selects, crecvs>>

\* variant: a refused connect gives the backend's turn back
ConnectErrorRollsBack ==
  /\ pc = "connect"
  /\ connects' = connects + 1
  /\ exc' = "ConnectionRefusedError"
  /\ raisedAt' = "connect"
  /\ rr_index' = startIdx
  /\ pc' = RaiseTo("ConnectionRefusedError")
  /\ UNCHANGED <<accepted, clientOpen, cstream, cpos, data, req, host, serv,
                 servOpen, respLen, boff, brecvs, resp, backendIn, reqCalls,
                 clientOut, respCalls, logged, startIdx, assigned, prevRaised,
                 passed, selects, crecvs>>

\* line 43: serv.connect raises (refused, unreachable)
ConnectError ==
  /\ pc = "connect"
  /\ connects' = connects + 1
  /\ exc' = "ConnectionRefusedError"
  /\ raisedAt' = "connect"
  /\ pc' = RaiseTo("ConnectionRefusedError")
  /\ UNCHANGED <<rr_index, accepted, clientOpen, cstream, cpos, data, req,
                 host, serv, servOpen, respLen, boff, brecvs, resp, backendIn,
                 reqCalls, clientOut, respCalls, logged, startIdx, assigned,
                 prevRaised, passed, selects, crecvs>>

\* variant: serv.send(req), one write whatever the transport takes
SendReqOnce ==
  /\ pc = "sendreq"
  /\ \E k \in Accepts(Len(req) - Len(backendIn)) :
       backendIn' = backendIn \o SubSeq(req, Len(backendIn) + 1, Len(backendIn) + k)
  /\ reqCalls' = reqCalls + 1
  /\ pc' = "recv"
  /\ UNCHANGED <<rr_index, accepted, clientOpen, cstream, cpos, data, req,
                 host, serv, servOpen, connects, respLen, boff, brecvs, resp,
                 clientOut, respCalls, exc, raisedAt, logged, startIdx,
                 assigned, prevRaised, passed, selects, crecvs>>

\* line 44: serv.sendall(req).  sendall keeps writing until the transport
\* has taken the whole buffer; each step here is one write of that loop.
SendReq ==
  /\ pc = "sendreq"
  /\ \E k \in Accepts(Len(req) - Len(backendIn)) :
       backendIn' = backendIn \o SubSeq(req, Len(backendIn) + 1, Len(backendIn) + k)
  /\ reqCalls' = reqCalls + 1
  /\ pc' = IF Len(backendIn') = Len(req) THEN "recv" ELSE "sendreq"
  /\ UNCHANGED <<rr_index, accepted, clientOpen, cstream, cpos, data, req,
                 host, serv, servOpen, connects, respLen, boff, brecvs, resp,
                 clientOut, respCalls, exc, raisedAt, logged, startIdx,
                 assigned, prevRaised, passed, selects, crecvs>>

\* line 44: a write of serv.sendall raises
SendReqError ==
  /\ pc = "sendreq"
  /\ reqCalls' = reqCalls + 1
  /\ exc' = "BrokenPipeError"
  /\ raisedAt' = "sendreq"
  /\ pc' = RaiseTo("BrokenPipeError")
  /\ UNCHANGED <<rr_index, accepted, clientOpen, cstream, cpos, data, req,
                 host, serv, servOpen, connects, respLen, boff, brecvs, resp,
                 backendIn, clientOut, respCalls, logged, startIdx, assigned,
                 prevRaised, passed, selects, crecvs>>

\* variant: the size limit of serv.recv is not applied
RecvSizesUnlimited(max, avail) == IF avail = 0 THEN {0} ELSE Chunks(avail)

\* what one serv.recv(max) returns when `avail` bytes of the answer are left:
\* the sizes of the first chunk the transport may deliver (0 = peer closed)
RecvSizes(max, avail) == IF avail = 0 THEN {0} ELSE Chunks(Min(max, avail))

\* variant: an empty answer leaves the try body at once (continue)
RecvRespEmptySkipsClose ==
  /\ pc = "recv"
  /\ \E k \in RecvSizes(RecvMax, respLen - boff) :
       /\ resp' = [from |-> boff, len |-> k]
       /\ boff' = boff + k
       /\ pc' = IF k > 0 THEN "sendresp" ELSE "finally"
  /\ brecvs' = brecvs + 1
  /\ UNCHANGED <<rr_index, accepted, clientOpen, cstream, cpos, data, req,
                 host, serv, servOpen, connects, respLen, backendIn, reqCalls,
                 clientOut, respCalls, exc, raisedAt, logged, startIdx,
                 assigned, prevRaised, passed, selects, crecvs>>

\* lines 47-48: resp = serv.recv(4096); if resp: ... (one recv, no loop)
RecvResp ==
  /\ pc = "recv"
  /\ \E k \in RecvSizes(RecvMax, respLen - boff) :
       /\ resp' = [from |-> boff, len |-> k]
       /\ boff' = boff + k
       /\ pc' = IF k > 0 THEN "sendresp" ELSE "servclose"
  /\ brecvs' = brecvs + 1
  /\ UNCHANGED <<rr_index, accepted, clientOpen, cstream, cpos, data, req,
                 host, serv, servOpen, connects, respLen, backendIn, reqCalls,
                 clientOut, respCalls, exc, raisedAt, logged, startIdx,
                 assigned, prevRaised, passed, selects, crecvs>>

\* line 47: serv.recv raises
RecvRespError ==
  /\ pc = "recv"
  /\ brecvs' = brecvs + 1
  /\ exc' = "ConnectionResetError"
  /\ raisedAt' = "recv"
  /\ pc' = RaiseTo("ConnectionResetError")
  /\ UNCHANGED <<rr_index, accepted, clientOpen, cstream, cpos, data, req,
                 host, serv, servOpen, connects, respLen, boff, resp,
                 backendIn, reqCalls, clientOut, respCalls, logged, startIdx,
                 assigned, prevRaised, passed, selects, crecvs>>

\* line 49: client.sendall(resp); each step is one write of sendall's loop
SendResp ==
  /\ pc = "sendresp"
  /\ \E k \in Accepts(resp.len - clientOut) : clientOut' = clientOut + k
  /\ respCalls' = respCalls + 1
  /\ pc' = IF clientOut' = resp.len THEN "servclose" ELSE "sendresp"
  /\ UNCHANGED <<rr_index, accepted, clientOpen, cstream, cpos, data, req,
                 host, serv, servOpen, connects, respLen, boff, brecvs, resp,
                 backendIn, reqCalls, exc, raisedAt, logged, startIdx,
                 assigned, prevRaised, passed, selects, crecvs>>

\* line 49: a write of client.sendall raises
SendRespError ==
  /\ pc = "sendresp"
  /\ respCalls' = respCalls + 1
  /\ exc' = "BrokenPipeError"
  /\ raisedAt' = "sendresp"
  /\ pc' = RaiseTo("BrokenPipeError")
  /\ UNCHANGED <<rr_index, accepted, clientOpen, cstream, cpos, data, req,
                 host, serv, servOpen, connects, respLen, boff, brecvs, resp,
                 backendIn, reqCalls, clientOut, logged, startIdx, assigned,
                 prevRaised, passed, selects, crecvs>>

\* variant: serv.close() left to after client.close()
ServCloseSkipped ==
  /\ pc = "servclose"
  /\ servOpen' = servOpen
  /\ pc' = "finally"
  /\ UNCHANGED <<rr_index, accepted, clientOpen, serv, exc, assigned, prevRaised,
                 passed>>
  /\ UNCHANGED connVars

\* line 51: serv.close(), reached only when nothing above it raised
ServClose ==
  /\ pc = "servclose"
  /\ servOpen' = servOpen \ {serv}
  /\ pc' = "finally"
  /\ UNCHANGED <<rr_index, accepted, clientOpen, serv, exc, assigned, prevRaised,
                 passed>>
  /\ UNCHANGED connVars

\* variant: the handler prints and re-raises (raise)
ExceptReraises ==
  /\ pc = "except"
  /\ logged' = logged + 1
  /\ exc' = exc
  /\ pc' = "finally"
  /\ UNCHANGED <<rr_index, accepted, clientOpen, cstream, cpos, data, req,
                 host, serv, servOpen, connects, respLen, boff, brecvs, resp,
                 backendIn, reqCalls, clientOut, respCalls, raisedAt,
                 startIdx, assigned, prevRaised, passed, selects, crecvs>>

\* lines 52-53: except Exception as e: print(...); e is unbound afterwards
Except ==
  /\ pc = "except"
  /\ logged' = logged + 1
  /\ exc' = "none"
  /\ pc' = "finally"
  /\ UNCHANGED <<rr_index, accepted, clientOpen, cstream, cpos, data, req,
                 host, serv, servOpen, connects, respLen, boff, brecvs, resp,
                 backendIn, reqCalls, clientOut, respCalls, raisedAt,
                 startIdx, assigned, prevRaised, passed, selects, crecvs>>

\* variant: client.close() at the end of the try body instead of in finally
FinallyClosesOnSuccessOnly ==
  /\ pc = "finally"
  /\ clientOpen' = IF raisedAt = "none" THEN clientOpen \ {accepted} ELSE clientOpen
  /\ pc' = IF exc = "none" THEN "accept" ELSE "terminated"
  /\ UNCHANGED <<rr_index, accepted, serv, servOpen, exc, assigned, prevRaised,
                 passed>>
  /\ UNCHANGED connVars

\* lines 54-55: finally: client.close(); then back to the head of the loop,
\* or out of main if an exception is still in flight
Finally ==
  /\ pc = "finally"
  /\ clientOpen' = clientOpen \ {accepted}
  /\ pc' = IF exc = "none" THEN "accept" ELSE "terminated"
  /\ UNCHANGED <<rr_index, accepted, serv, servOpen, exc, assigned, prevRaised,
                 passed>>
  /\ UNCHANGED connVars

Next ==
  \/ Accept
  \/ ReadChunk
  \/ ReadEOF
  \/ ReadError
  \/ ShortClose
  \/ Select
  \/ CreateSocket
  \/ SocketError
  \/ Connect
  \/ ConnectError
  \/ SendReq
  \/ SendReqError
  \/ RecvResp
  \/ RecvRespError
  \/ SendResp
  \/ SendRespError
  \/ ServClose
  \/ Except
  \/ Finally

Spec == Init /\ [][Next]_vars

\* every step of the loop body after accept: the blocking calls returning
\* (with a result or an error) and the statements between them
Handle ==
  \/ ReadChunk
  \/ ReadEOF
  \/ ReadError
  \/ ShortClose
  \/ Select
  \/ CreateSocket
  \/ SocketError
  \/ Connect
  \/ ConnectError
  \/ SendReq
  \/ SendReqError
  \/ RecvResp
  \/ RecvRespError
  \/ SendResp
  \/ SendRespError
  \/ ServClose
  \/ Except
  \/ Finally

\* line 30 in a run that accepts LiveClients connections
AcceptLive == accepted < LiveClients /\ Accept

NextLive == AcceptLive \/ Handle

\* the loop under the assumption that every blocking call of the loop body
\* returns: the thread does not stay forever at a step it can take.  No
\* fairness for accept: clients need not come.
SpecLive == Init /\ [][NextLive]_vars /\ WF_vars(Handle)

\* ------------------------------------------------------------ properties

\* servers[(n-1) mod len(servers)], for the n-th admitted client
CyclicServer(n) == servers[((n - 1) % Len(servers)) + 1]

\* the backend after h in the cyclic order of servers
NextServer(h) ==
  LET i == CHOOSE j \in 1..Len(servers) : servers[j] = h
  IN servers[(i % Len(servers)) + 1]

\* the call that failed was one made on the backend socket
BackendFailed(r) == r \in {"connect", "sendreq", "recv"}

\* the current client's handling is over (back at accept, or on its way
\* through the finally clause)
Handled == accepted > 0 /\ pc \in {"finally", "accept"}

\* C1: the n-th client whose prefix read yields exactly 2 bytes is assigned
\* servers[(n-1) mod len(servers)], whatever short or failing connections
\* come in between; with 3 backends the sequence is 0,1,2,0,...
C1_RoundRobin ==
  /\ Len(servers) = 3
  /\ Len(assigned) = passed - (IF pc = "check" /\ Len(req) = PrefixLen THEN 1 ELSE 0)
  /\ \A n \in 1..Len(assigned) : assigned[n] = CyclicServer(n)
  /\ host # "" => (Len(assigned) > 0 /\ host = assigned[Len(assigned)])

C1_Witness ==
  /\ assigned = <<servers[1], servers[2], servers[3], servers[1]>>
  /\ prevRaised = "connect"
  /\ host = servers[1]

\* C2: a client that delivers 0 or 1 byte and closes: no backend socket, no
\* connect, nothing sent to the client, no error line, cursor unchanged, and
\* the client socket is closed when the loop is back at accept
C2_ShortRequest ==
  (accepted > 0 /\ Len(cstream) < PrefixLen /\ raisedAt = "none") =>
    /\ pc \in {"read_n", "check", "finally", "accept"}
    /\ host = ""
    /\ connects = 0
    /\ serv # accepted
    /\ accepted \notin servOpen
    /\ backendIn = <<>>
    /\ brecvs = 0
    /\ clientOut = 0
    /\ respCalls = 0
    /\ logged = 0
    /\ rr_index = startIdx
    /\ pc = "accept" => accepted \notin clientOpen

C2_Witness ==
  /\ pc = "accept"
  /\ accepted = 2
  /\ Len(cstream) = 1
  /\ raisedAt = "none"
  /\ startIdx = 1
  /\ rr_index = 1
  /\ clientOpen = {}

\* C3: when connect, send or recv on the backend fails, the client gets no
\* bytes and is closed, the cursor has advanced by exactly one, and the
\* client admitted next gets the next backend in cyclic order
C3_BackendFailure ==
  /\ BackendFailed(raisedAt) =>
       /\ pc \in {"except", "finally", "accept"}
       /\ clientOut = 0
       /\ respCalls = 0
       /\ host = servers[startIdx + 1]
       /\ rr_index = (startIdx + 1) % Len(servers)
       /\ pc = "accept" => accepted \notin clientOpen
  /\ (BackendFailed(prevRaised) /\ host # "") =>
       /\ Len(assigned) >= 2
       /\ host = NextServer(assigned[Len(assigned) - 1])

C3_Witness ==
  /\ pc = "accept"
  /\ prevRaised = "connect"
  /\ host = servers[3]
  /\ raisedAt = "none"
  /\ resp.len > 0
  /\ clientOut = resp.len
  /\ clientOpen = {}

\* C4: whenever the loop is back at accept, no accepted client socket is open
C4_ClientClosedAtAccept == pc = "accept" => clientOpen = {}

C4_Witness ==
  /\ pc = "accept"
  /\ accepted = 3
  /\ raisedAt = "sendresp"
  /\ prevRaised = "none"
  /\ clientOpen = {}

\* C5: whenever the loop is back at accept, no backend socket the forwarder
\* created is still open
C5_BackendClosedAtAccept == pc = "accept" => servOpen = {}

\* C6: the bytes written to the client come from one recv on the backend:
\* the buffer is the first at most 4096 bytes of the answer, the backend is
\* read at most once however long its answer is, the client never holds
\* anything but a prefix of that buffer, and holds all of it once
\* client.sendall has returned
C6_SingleRead ==
  /\ brecvs <= 1
  /\ resp.from = 0
  /\ resp.len <= RecvMax
  /\ resp.len <= respLen
  /\ boff = resp.len
  /\ clientOut <= resp.len
  /\ respCalls > 0 => brecvs = 1
  /\ (pc = "servclose" \/ (Handled /\ raisedAt = "none")) => clientOut = resp.len

C6_Witness ==
  /\ pc = "accept"
  /\ raisedAt = "none"
  /\ respLen = MaxRespLen
  /\ brecvs = 1
  /\ resp = [from |-> 0, len |-> RecvMax]
  /\ clientOut = RecvMax

\* C7: what is sent to the backend is the first 2 bytes of the client's
\* stream, in order; no more than 2 bytes are ever taken off the client socket
C7_RequestVerbatim ==
  /\ cpos <= PrefixLen
  /\ cpos <= Len(cstream)
  /\ data = Take(cstream, cpos)
  /\ Len(backendIn) <= cpos
  /\ backendIn = Take(cstream, Len(backendIn))
  /\ reqCalls > 0 => (Len(req) = PrefixLen /\ req = Take(cstream, PrefixLen))
  /\ (pc = "recv" \/ brecvs > 0) => backendIn = Take(cstream, PrefixLen)

C7_Witness ==
  /\ Len(cstream) = 3
  /\ cstream[1] # cstream[2]
  /\ brecvs = 1
  /\ reqCalls = 2
  /\ backendIn = <<cstream[1], cstream[2]>>

\* C8: handling is sequential: the only client socket that can be open is
\* the one accepted last, so no client is accepted while another is handled
C8_Sequential ==
  /\ Cardinality(clientOpen) <= 1
  /\ clientOpen \subseteq {accepted}
  /\ pc = "read_n" => clientOpen = {accepted}

C8_Witness ==
  /\ pc = "recv"
  /\ accepted = 2
  /\ clientOpen = {2}
  /\ prevRaised = "none"

\* C9: an error raised while a connection is handled is caught and logged
\* once within that handling, and never takes the thread out of the loop
C9_ErrorsContained ==
  /\ pc # "terminated"
  /\ pc = "accept" => exc = "none"
  /\ raisedAt # "none" => pc \in {"except", "finally", "accept"}
  /\ (raisedAt # "none" /\ pc \in {"finally", "accept"}) =>
       (logged = 1 /\ exc = "none")
  /\ raisedAt = "none" => (logged = 0 /\ exc = "none")

C9_Witness ==
  /\ pc = "accept"
  /\ prevRaised = "socket"
  /\ raisedAt = "read"
  /\ logged = 1

\* C10: 0 <= rr_index < len(servers) in every reachable state
C10_CursorInRange ==
  /\ Len(servers) > 0
  /\ rr_index \in 0..(Len(servers) - 1)

C10_Witness ==
  /\ rr_index = 0
  /\ Len(assigned) = Len(servers)
  /\ startIdx = Len(servers) - 1

\* C11 as stated: each send is one write, so a buffer the transport took
\* only part of is never followed by a second write
C11_SingleWrite == reqCalls <= 1 /\ respCalls <= 1

\* C11 amended: each send is one sendall call, which keeps writing until the
\* transport has taken the whole buffer or a write raises: a partly taken
\* buffer is followed by further writes of the remainder, every write takes
\* at least one byte, and the call returns only with the whole buffer taken
C11_SendAll ==
  /\ pc = "sendreq" => Len(backendIn) < Len(req)
  /\ pc = "sendresp" => clientOut < resp.len
  /\ reqCalls <= Len(backendIn) + 1
  /\ respCalls <= clientOut + 1
  /\ (pc = "recv" \/ brecvs > 0) => backendIn = req
  /\ (pc = "servclose" \/ (Handled /\ raisedAt = "none" /\ brecvs = 1)) =>
       clientOut = resp.len

C11_Witness ==
  /\ pc = "servclose"
  /\ reqCalls = 2
  /\ backendIn = req
  /\ respCalls = 2
  /\ resp.len = RecvMax
  /\ clientOut = resp.len

\* C12: per accepted client at most one backend is selected and at most one
\* connect is attempted; once a call has raised, the thread only goes through
\* except and finally back to accept
C12_NoRetryNoFailover ==
  /\ selects <= 1
  /\ connects <= selects
  /\ host # "" => host = servers[startIdx + 1]
  /\ raisedAt # "none" => pc \in {"except", "finally", "accept"}
  /\ BackendFailed(raisedAt) => (selects = 1 /\ connects = 1)

C12_Witness ==
  /\ pc = "accept"
  /\ accepted = 1
  /\ raisedAt = "connect"
  /\ selects = 1
  /\ connects = 1

\* C13: read_n(conn, 2) returns the first 2 bytes of the stream however the
\* transport chunks them, returns a shorter buffer exactly when the peer
\* closed before 2 bytes, and never returns more than 2 bytes
C13_ReadN ==
  /\ pc = "read_n" => (Len(data) < PrefixLen /\ cpos <= Len(cstream)
                       /\ data = Take(cstream, cpos))
  /\ pc = "check" =>
       /\ Len(req) <= PrefixLen
       /\ req = Take(cstream, Min(PrefixLen, Len(cstream)))
       /\ (Len(req) < PrefixLen) <=> (Len(cstream) < PrefixLen)
       /\ crecvs \in 1..(Len(req) + 1)

C13_Witness ==
  /\ pc = "check"
  /\ crecvs = 2
  /\ Len(cstream) = 3
  /\ req = <<cstream[1], cstream[2]>>
  /\ req[1] # req[2]

\* C14: when the one recv on the backend returns no bytes, nothing is
\* written to the client, nothing is logged, the cursor has advanced by one,
\* and both the backend socket and the client socket get closed
C14_EmptyAnswer ==
  (brecvs = 1 /\ raisedAt = "none" /\ resp.len = 0) =>
    /\ pc \in {"servclose", "finally", "accept"}
    /\ clientOut = 0
    /\ respCalls = 0
    /\ logged = 0
    /\ selects = 1
    /\ rr_index = (startIdx + 1) % Len(servers)
    /\ serv = accepted
    /\ pc \in {"finally", "accept"} => accepted \notin servOpen
    /\ pc = "accept" => accepted \notin clientOpen

C14_Witness ==
  /\ pc = "accept"
  /\ brecvs = 1
  /\ raisedAt = "none"
  /\ respLen = 0
  /\ resp.len = 0
  /\ startIdx = 2
  /\ rr_index = 0
  /\ clientOpen = {}
  /\ servOpen = {}

\* C15: if every blocking call of the body returns, an accepted client is
\* eventually closed with the loop back at accept; and the loop accepts only
\* from the head of the loop, which the thread waiting in serv.recv leaves
\* only when that recv returns or raises
C15_Progress ==
  /\ (pc # "accept") ~> (pc = "accept" /\ clientOpen = {})
  /\ [][accepted' # accepted => (pc = "accept" /\ clientOpen = {})]_vars
  /\ [][(pc = "recv" /\ pc' # "recv") => brecvs' = brecvs + 1]_vars

C15_Witness ==
  /\ pc = "accept"
  /\ accepted = 2
  /\ prevRaised = "recv"
  /\ raisedAt = "none"
  /\ brecvs = 1
  /\ clientOpen = {}

\* C16: order of the steps of one connection: selection, socket and connect
\* only after the 2-byte prefix is read; the cursor is advanced before the
\* connect; the client is written to only after the backend recv; on the
\* path without error the backend socket is closed before the client socket
C16_StepOrder ==
  /\ (selects > 0 \/ connects > 0 \/ (accepted > 0 /\ serv = accepted)) =>
       (Len(req) = PrefixLen /\ cpos = PrefixLen)
  /\ (pc = "connect" \/ connects > 0) =>
       (selects = 1 /\ rr_index = (startIdx + 1) % Len(servers))
  /\ (respCalls > 0 \/ clientOut > 0) => (brecvs = 1 /\ reqCalls > 0)
  /\ brecvs > 0 => connects = 1
  /\ (raisedAt = "none" /\ selects = 1 /\ accepted \notin clientOpen) =>
       accepted \notin servOpen
  /\ (pc = "finally" /\ raisedAt = "none" /\ selects = 1) =>
       (accepted \in clientOpen /\ accepted \notin servOpen)

C16_Witness ==
  /\ pc = "finally"
  /\ raisedAt = "none"
  /\ clientOut > 0
  /\ clientOpen = {accepted}
  /\ serv = accepted
  /\ servOpen = {}

\* C17: when conn.recv raises in read_n, the cursor is not advanced, no
\* backend is selected or contacted, nothing reaches the client, one error
\* line is printed and the client socket is closed
C17_ReadError ==
  raisedAt = "read" =>
    /\ rr_index = startIdx
    /\ selects = 0
    /\ host = ""
    /\ connects = 0
    /\ serv # accepted
    /\ accepted \notin servOpen
    /\ backendIn = <<>>
    /\ clientOut = 0
    /\ pc \in {"except", "finally", "accept"}
    /\ pc \in {"finally", "accept"} => logged = 1
    /\ pc = "accept" => accepted \notin clientOpen

C17_Witness ==
  /\ pc = "accept"
  /\ raisedAt = "read"
  /\ Len(data) = 1
  /\ logged = 1
  /\ startIdx = 1
  /\ rr_index = 1
  /\ clientOpen = {}

====
